---- MODULE Spec2Model ----
(***************************************************************************)
(* plot_particles.py: load_particle_data reads one particle group of an    *)
(* HDF5 snapshot, plot_3d_particles renders it, __main__ chains the two.   *)
(* Every statement of the two functions that can raise, or that has an     *)
(* effect outside the process, is one action.                              *)
(*                                                                         *)
(* Numbers.  Lengths in the file are integers counted in units of 1e17 cm, *)
(* so that the divisor 3.0857e21 cm is the integer 30857.  Quotients are   *)
(* kept as exact fractions in lowest terms, with the IEEE specials that    *)
(* numpy's true division produces (nan, -inf, +inf) as separate classes.   *)
(***************************************************************************)
EXTENDS Integers, Sequences, FiniteSets, TLC

VARIABLES
    input,      \* what the run was started with: snapshot, old image, stride
    file,       \* the snapshot file as it is on disk now
    png,        \* single_nebula_1.png on disk: "absent", "old" or "new"
    handle,     \* the h5py.File object f: "none", "open" or "closed"
    pc,         \* the statement the process is at
    err,        \* the exception that ended the process, "" if none
    load,       \* locals of load_particle_data: coords, x, y, z, masses
    res,        \* the tuples load_particle_data has returned, in call order
    p,          \* locals of plot_3d_particles: x, y, z, masses, sizes
    scat,       \* the arguments the scatter call was given
    events,     \* the pyplot calls made so far, in order
    window      \* TRUE while the interactive window is shown

vars == <<input, file, png, handle, pc, err, load, res, p, scat, events, window>>

-----------------------------------------------------------------------------
(* Bounds of the model *)

MaxN == 3           \* rows of the Coordinates table
MaxM == 3           \* elements of the Masses table
MaxStride == 3      \* largest subsample stride tried

(* Program constants *)

CM_PER_KPC == 30857     \* 3.0857e21 cm, in units of 1e17 cm
PARTICLE_TYPE == 0
SizeBaseTenths == 1     \* 0.1, in tenths
SizeSpanTenths == 49    \* 4.9, in tenths

MassVals == {-1, 0, 1, 2}
RowVals == { <<30857, 0, 0>>, <<0, 61714, 1>> }
PartTypes == {0, 1}

-----------------------------------------------------------------------------
(* Exact arithmetic *)

Abs(n) == IF n < 0 THEN -n ELSE n

RECURSIVE GCD(_, _)
GCD(a, b) == IF b = 0 THEN a ELSE GCD(b, a % b)

NaN == [cls |-> "nan", num |-> 0, den |-> 1]
NegInf == [cls |-> "-inf", num |-> 0, den |-> 1]
PosInf == [cls |-> "+inf", num |-> 0, den |-> 1]

\* n / d for d # 0, in lowest terms with a positive denominator
Frac(n, d) ==
    LET g == GCD(Abs(n), Abs(d))
        s == IF d < 0 THEN -1 ELSE 1
    IN  [cls |-> "fin", num |-> (s * n) \div g, den |-> (s * d) \div g]

\* division guarded against a zero divisor
TrueDivideGuarded(n, d) ==
    IF d # 0 THEN Frac(n, d) ELSE Frac(0, 1)

\* numpy true division of two finite numbers
TrueDivide(n, d) ==
    IF d # 0 THEN Frac(n, d)
    ELSE IF n = 0 THEN NaN
    ELSE IF n < 0 THEN NegInf ELSE PosInf

\* 0.1 + 4.9 * q
SizeOf(q) ==
    IF q.cls = "fin"
    THEN Frac(SizeBaseTenths * q.den + SizeSpanTenths * q.num, 10 * q.den)
    ELSE q

\* q <= r for finite fractions
Leq(q, r) == q.num * r.den <= r.num * q.den

\* the elements of a sequence
Range(s) == { s[i] : i \in DOMAIN s }

\* all sequences over S of length at most n
SeqUpTo(S, n) == UNION { [1..k -> S] : k \in 0..n }

-----------------------------------------------------------------------------
(* Values *)

None == [some |-> FALSE, arr |-> <<>>]
Some(a) == [some |-> TRUE, arr |-> a]

NoLocals == [coords |-> <<>>, x |-> <<>>, y |-> <<>>, z |-> <<>>, masses |-> None]
NoPlot == [x |-> <<>>, y |-> <<>>, z |-> <<>>, masses |-> None,
           scalar |-> TRUE, size |-> Frac(1, 10), sizes |-> <<>>]
NoScatter == [done |-> FALSE, x |-> <<>>, y |-> <<>>, z |-> <<>>,
              scalar |-> TRUE, size |-> Frac(1, 10), sizes |-> <<>>]

\* A snapshot: whether it exists, the particle types it has a group for, and
\* the group PartType0: its Coordinates table (absent, or rows of ncols
\* columns) and its Masses table (absent, unreadable, or a 1-D table).
NoFile == [exists |-> FALSE, types |-> {}, hasCoords |-> FALSE, ncols |-> 3,
           coords |-> <<>>, hasMasses |-> FALSE, massesOK |-> TRUE, masses |-> <<>>]

Snapshots ==
    {NoFile}
    \cup { [NoFile EXCEPT !.exists = TRUE, !.types = T] : T \in SUBSET {1} }
    \cup { [NoFile EXCEPT !.exists = TRUE, !.types = {0}] }
    \cup { [NoFile EXCEPT !.exists = TRUE, !.types = {0}, !.hasCoords = TRUE,
                          !.ncols = 2, !.coords = c]
            : c \in { <<>>, << <<30857, 0>> >> } }
    \cup { [NoFile EXCEPT !.exists = TRUE, !.types = {0}, !.hasCoords = TRUE,
                          !.coords = c, !.hasMasses = TRUE, !.massesOK = FALSE]
            : c \in SeqUpTo(RowVals, 1) }
    \cup { [NoFile EXCEPT !.exists = TRUE, !.types = T, !.hasCoords = TRUE,
                          !.coords = c, !.hasMasses = m.some, !.masses = m.arr]
            : T \in {{0}, {0, 1}}, c \in SeqUpTo(RowVals, MaxN),
              m \in {None} \cup { Some(a) : a \in SeqUpTo(MassVals, MaxM) } }

Inputs == [file : Snapshots, png : {"absent", "old"}, subsample : 1..MaxStride]

-----------------------------------------------------------------------------
Init ==
    /\ input \in Inputs
    /\ file = input.file
    /\ png = input.png
    /\ handle = "none"
    /\ pc = "main"
    /\ err = ""
    /\ load = NoLocals
    /\ res = <<>>
    /\ p = NoPlot
    /\ scat = NoScatter
    /\ events = <<>>
    /\ window = FALSE

-----------------------------------------------------------------------------
(* Control *)

\* the exception is caught and the script goes on to the plot
UnhandledSwallowed(exc) ==
    /\ pc' = "main_plot"
    /\ err' = exc

\* an exception nothing catches ends the process
Unhandled(exc) ==
    /\ pc' = "error"
    /\ err' = exc

\* f opened without a with block: leaving does not close it
WithExitLeak ==
    handle' = handle

\* leaving the with block, normally or by an exception, closes f
WithExit ==
    handle' = "closed"

\* __main__: print, then call load_particle_data(SNAPSHOT_FILE, PARTICLE_TYPE)
MainLoad ==
    /\ pc = "main"
    /\ pc' = "load_open"
    /\ UNCHANGED <<input, file, png, handle, err, load, res, p, scat, events, window>>

-----------------------------------------------------------------------------
(* load_particle_data *)

\* h5py.File(filename, 'w'): creates or truncates the file
LoadOpenTruncate ==
    /\ pc = "load_open"
    /\ file' = [NoFile EXCEPT !.exists = TRUE]
    /\ handle' = "open"
    /\ pc' = "load_group"
    /\ UNCHANGED <<input, png, err, load, res, p, scat, events, window>>

\* h5py.File(filename, 'r')
LoadOpen ==
    /\ pc = "load_open"
    /\ IF file.exists
       THEN /\ handle' = "open"
            /\ pc' = "load_group"
            /\ err' = err
       ELSE /\ Unhandled("FileNotFoundError")
            /\ handle' = handle
    /\ UNCHANGED <<input, file, png, load, res, p, scat, events, window>>

\* group = f[f'PartType{part_type}']
LoadGroup ==
    /\ pc = "load_group"
    /\ IF PARTICLE_TYPE \in file.types
       THEN /\ pc' = "load_coords"
            /\ UNCHANGED <<handle, err>>
       ELSE /\ WithExit
            /\ Unhandled("KeyError:PartType")
    /\ UNCHANGED <<input, file, png, load, res, p, scat, events, window>>

\* one row of the table divided by 3.0857e21
ToKpc(row) ==
    [j \in DOMAIN row |-> TrueDivide(row[j], CM_PER_KPC)]

\* coords = group['Coordinates'][:] / 3.0857e21
LoadCoords ==
    /\ pc = "load_coords"
    /\ IF file.hasCoords
       THEN /\ load' = [load EXCEPT !.coords = [i \in DOMAIN file.coords |-> ToKpc(file.coords[i])]]
            /\ pc' = "load_split"
            /\ UNCHANGED <<handle, err>>
       ELSE /\ WithExit
            /\ Unhandled("KeyError:Coordinates")
            /\ load' = load
    /\ UNCHANGED <<input, file, png, res, p, scat, events, window>>

\* coords[:, j], columns counted from 0
Column(coords, j) ==
    [i \in DOMAIN coords |-> coords[i][j + 1]]

\* x = coords[:,0]; y = coords[:,1]; z = coords[:,2]
LoadSplit ==
    /\ pc = "load_split"
    /\ IF file.ncols >= 3
       THEN /\ load' = [load EXCEPT !.x = Column(load.coords, 0),
                                    !.y = Column(load.coords, 1),
                                    !.z = Column(load.coords, 2)]
            /\ pc' = "load_masses"
            /\ UNCHANGED <<handle, err>>
       ELSE /\ WithExit
            /\ Unhandled("IndexError")
            /\ load' = load
    /\ UNCHANGED <<input, file, png, res, p, scat, events, window>>

\* a missing Masses table read as an empty array instead of None
LoadMassesEmpty ==
    /\ pc = "load_masses"
    /\ IF ~file.hasMasses \/ file.massesOK
       THEN /\ load' = [load EXCEPT !.masses = Some(file.masses)]
            /\ pc' = "load_exit"
            /\ UNCHANGED <<handle, err>>
       ELSE /\ handle' = "closed"
            /\ pc' = "error"
            /\ err' = "OSError:Masses"
            /\ load' = load
    /\ UNCHANGED <<input, file, png, res, p, scat, events, window>>

\* masses = group['Masses'][:] if 'Masses' in group else None
LoadMasses ==
    /\ pc = "load_masses"
    /\ IF ~file.hasMasses
       THEN /\ load' = [load EXCEPT !.masses = None]
            /\ pc' = "load_exit"
            /\ UNCHANGED <<handle, err>>
       ELSE IF file.massesOK
       THEN /\ load' = [load EXCEPT !.masses = Some(file.masses)]
            /\ pc' = "load_exit"
            /\ UNCHANGED <<handle, err>>
       ELSE /\ WithExit
            /\ Unhandled("OSError:Masses")
            /\ load' = load
    /\ UNCHANGED <<input, file, png, res, p, scat, events, window>>

\* the end of the with block
LoadExit ==
    /\ pc = "load_exit"
    /\ WithExit
    /\ pc' = "load_return"
    /\ UNCHANGED <<input, file, png, err, load, res, p, scat, events, window>>

\* return x, y, z, masses
LoadReturn ==
    /\ pc = "load_return"
    /\ res' = Append(res, [x |-> load.x, y |-> load.y, z |-> load.z, masses |-> load.masses])
    /\ pc' = IF Len(res) = 0 THEN "main_plot" ELSE "reloaded"
    /\ UNCHANGED <<input, file, png, handle, err, load, p, scat, events, window>>

-----------------------------------------------------------------------------
(* plot_3d_particles *)

\* __main__: print, then call plot_3d_particles(x, y, z, masses, subsample=SUBSAMPLE)
MainPlot ==
    /\ pc = "main_plot"
    /\ p' = [NoPlot EXCEPT !.x = res[1].x, !.y = res[1].y, !.z = res[1].z,
                           !.masses = res[1].masses]
    /\ pc' = "plot_figure"
    /\ UNCHANGED <<input, file, png, handle, err, load, res, scat, events, window>>

\* fig = plt.figure(...); ax = fig.add_subplot(...)
PlotFigure ==
    /\ pc = "plot_figure"
    /\ events' = Append(events, "figure")
    /\ pc' = "plot_subsample"
    /\ UNCHANGED <<input, file, png, handle, err, load, res, p, scat, window>>

\* arr[::k] cut to whole strides: floor(N/k) elements
SliceFloor(arr, k) ==
    [i \in 1..(Len(arr) \div k) |-> arr[(i - 1) * k + 1]]

\* arr[::k] for k >= 1
RECURSIVE Slice(_, _)
Slice(arr, k) ==
    IF Len(arr) = 0 THEN <<>>
    ELSE <<Head(arr)>> \o Slice(SubSeq(arr, k + 1, Len(arr)), k)

\* if subsample > 1: x, y, z, masses = x[::subsample], ...
PlotSubsample ==
    /\ pc = "plot_subsample"
    /\ p' = IF input.subsample > 1
            THEN [p EXCEPT !.x = Slice(p.x, input.subsample),
                           !.y = Slice(p.y, input.subsample),
                           !.z = Slice(p.z, input.subsample),
                           !.masses = IF p.masses.some
                                      THEN Some(Slice(p.masses.arr, input.subsample))
                                      ELSE p.masses]
            ELSE p
    /\ pc' = "plot_sizes"
    /\ UNCHANGED <<input, file, png, handle, err, load, res, scat, events, window>>

\* the first element taken for the maximum
MaxFirst(arr) ==
    arr[1]

\* np.max of a non-empty array
RECURSIVE Max(_)
Max(arr) ==
    IF Len(arr) = 1 THEN arr[1]
    ELSE LET m == Max(Tail(arr)) IN IF arr[1] >= m THEN arr[1] ELSE m

\* 0.1 + 4.9 * (masses / np.max(masses))
Sizes(masses) ==
    [i \in DOMAIN masses |-> SizeOf(TrueDivide(masses[i], Max(masses)))]

\* the size statement with a maximum that is 0 for an empty array
PlotSizesEmptyOK ==
    /\ pc = "plot_sizes"
    /\ p' = IF ~p.masses.some
            THEN [p EXCEPT !.scalar = TRUE, !.size = Frac(SizeBaseTenths, 10)]
            ELSE IF Len(p.masses.arr) = 0
            THEN [p EXCEPT !.scalar = FALSE, !.sizes = <<>>]
            ELSE [p EXCEPT !.scalar = FALSE, !.sizes = Sizes(p.masses.arr)]
    /\ pc' = "plot_scatter"
    /\ UNCHANGED <<input, file, png, handle, err, load, res, scat, events, window>>

\* sizes = 0.1; if masses is not None: sizes = ...
PlotSizes ==
    /\ pc = "plot_sizes"
    /\ IF ~p.masses.some
       THEN /\ p' = [p EXCEPT !.scalar = TRUE, !.size = Frac(SizeBaseTenths, 10)]
            /\ pc' = "plot_scatter"
            /\ err' = err
       ELSE IF Len(p.masses.arr) = 0
       THEN /\ Unhandled("ValueError:max")
            /\ p' = p
       ELSE /\ p' = [p EXCEPT !.scalar = FALSE, !.sizes = Sizes(p.masses.arr)]
            /\ pc' = "plot_scatter"
            /\ err' = err
    /\ UNCHANGED <<input, file, png, handle, load, res, scat, events, window>>

\* scatter that cycles through s whatever its length
ScatterAcceptsAnySizes(x, y, z, scalar, sizes) ==
    Cardinality({Len(x), Len(y), Len(z)} \ {1}) <= 1

\* scatter broadcasts x, y, z against each other and takes s as a scalar,
\* one size, or one size per point
ScatterAccepts(x, y, z, scalar, sizes) ==
    LET lens == {Len(x), Len(y), Len(z)}
        n == IF lens \ {1} = {} THEN 1 ELSE CHOOSE l \in lens \ {1} : TRUE
    IN  /\ Cardinality(lens \ {1}) <= 1
        /\ scalar \/ Len(sizes) \in {1, n}

\* sc = ax.scatter(x, y, z, c=..., s=sizes, ...)
PlotScatter ==
    /\ pc = "plot_scatter"
    /\ IF ScatterAccepts(p.x, p.y, p.z, p.scalar, p.sizes)
       THEN /\ scat' = [done |-> TRUE, x |-> p.x, y |-> p.y, z |-> p.z,
                        scalar |-> p.scalar, size |-> p.size, sizes |-> p.sizes]
            /\ events' = Append(events, "scatter")
            /\ pc' = "plot_decorate"
            /\ err' = err
       ELSE /\ Unhandled("ValueError:scatter")
            /\ UNCHANGED <<scat, events>>
    /\ UNCHANGED <<input, file, png, handle, load, res, p, window>>

\* labels, title, grid, panes, aspect, view_init
PlotDecorate ==
    /\ pc = "plot_decorate"
    /\ pc' = "plot_savefig"
    /\ UNCHANGED <<input, file, png, handle, err, load, res, p, scat, events, window>>

\* the save moved below plt.tight_layout()
PlotSavefigAfterLayout ==
    /\ pc = "plot_savefig"
    /\ png' = "new"
    /\ events' = events \o <<"tight_layout", "savefig">>
    /\ pc' = "plot_show"
    /\ UNCHANGED <<input, file, handle, err, load, res, p, scat, window>>

\* plt.savefig('single_nebula_1.png')
PlotSavefig ==
    /\ pc = "plot_savefig"
    /\ png' = "new"
    /\ events' = Append(events, "savefig")
    /\ pc' = "plot_tight_layout"
    /\ UNCHANGED <<input, file, handle, err, load, res, p, scat, window>>

\* plt.tight_layout()
PlotTightLayout ==
    /\ pc = "plot_tight_layout"
    /\ events' = Append(events, "tight_layout")
    /\ pc' = "plot_show"
    /\ UNCHANGED <<input, file, png, handle, err, load, res, p, scat, window>>

\* plt.show() opens the window and blocks
PlotShow ==
    /\ pc = "plot_show"
    /\ window' = TRUE
    /\ events' = Append(events, "show")
    /\ pc' = "plot_shown"
    /\ UNCHANGED <<input, file, png, handle, err, load, res, p, scat>>

\* the user closes the window; plt.show() and the process return
CloseWindow ==
    /\ pc = "plot_shown"
    /\ window' = FALSE
    /\ pc' = "done"
    /\ UNCHANGED <<input, file, png, handle, err, load, res, p, scat, events>>

-----------------------------------------------------------------------------
(* A caller that loads the same snapshot a second time, straight after the *)
(* first load or after the plot has returned.                              *)

Reload ==
    /\ pc \in {"main_plot", "done"}
    /\ Len(res) = 1
    /\ load' = NoLocals
    /\ handle' = "none"
    /\ pc' = "load_open"
    /\ UNCHANGED <<input, file, png, err, res, p, scat, events, window>>

-----------------------------------------------------------------------------
Next ==
    \/ MainLoad
    \/ LoadOpen
    \/ LoadGroup
    \/ LoadCoords
    \/ LoadSplit
    \/ LoadMasses
    \/ LoadExit
    \/ LoadReturn
    \/ MainPlot
    \/ PlotFigure
    \/ PlotSubsample
    \/ PlotSizes
    \/ PlotScatter
    \/ PlotDecorate
    \/ PlotSavefig
    \/ PlotTightLayout
    \/ PlotShow
    \/ CloseWindow

Spec == Init /\ [][Next]_vars

NextReload ==
    \/ Next
    \/ Reload

SpecReload == Init /\ [][NextReload]_vars

-----------------------------------------------------------------------------
(* Vocabulary of the properties *)

InWith == {"load_group", "load_coords", "load_split", "load_masses", "load_exit"}

InPlot == {"plot_figure", "plot_subsample", "plot_sizes", "plot_scatter",
           "plot_decorate", "plot_savefig", "plot_tight_layout", "plot_show",
           "plot_shown"}

AfterScatter == {"plot_decorate", "plot_savefig", "plot_tight_layout",
                 "plot_show", "plot_shown", "done", "reloaded"}

LoadErrors == {"FileNotFoundError", "KeyError:PartType", "KeyError:Coordinates",
               "IndexError", "OSError:Masses"}

PlotErrors == {"ValueError:max", "ValueError:scatter"}

\* plot_3d_particles has been entered with the first load's result
Plotting == Len(res) >= 1 /\ (pc \in InPlot \/ scat.done \/ (pc = "error" /\ err \in PlotErrors))

\* the subsampling statement of plot_3d_particles is behind
Subsampled == Plotting /\ pc \notin {"plot_figure", "plot_subsample"}

\* the size statement of plot_3d_particles is behind, and did not raise
Sized == Subsampled /\ pc # "plot_sizes" /\ err # "ValueError:max"

CeilDiv(n, k) == (n + k - 1) \div k

\* elements 0, k, 2k, ... of arr (indices counted from 0)
EveryKth(arr, k) == [i \in 1..CeilDiv(Len(arr), k) |-> arr[(i - 1) * k + 1]]

IsPrefix(s, t) == Len(s) <= Len(t) /\ s = SubSeq(t, 1, Len(s))

IsEffect(e) == e \in {"savefig", "tight_layout", "show"}

Effects == SelectSeq(events, IsEffect)

Tenth == [cls |-> "fin", num |-> 1, den |-> 10]

\* the greatest element of a non-empty array
Greatest(arr) == CHOOSE m \in Range(arr) : \A e \in Range(arr) : e <= m

NothingRendered == png = input.png /\ ~window /\ Effects = <<>> /\ ~scat.done

-----------------------------------------------------------------------------
\* C1: the handle f is open only while the process is inside the with block
\* of load_particle_data; once the call has been left, by return or by an
\* exception from the group lookup, the Coordinates read, the column split
\* or the Masses read, it is closed, so it is never open during
\* plot_3d_particles or afterwards.
C1_HandleClosedOnExit ==
    /\ handle = "open" => pc \in InWith
    /\ pc \in {"load_return", "main_plot", "done", "reloaded"} \cup InPlot => handle = "closed"
    /\ pc = "error" /\ err # "FileNotFoundError" => handle = "closed"

C1_Witness ==
    pc = "error" /\ err = "OSError:Masses" /\ handle = "closed"

\* C2: the effects of the end of plot_3d_particles are always a prefix of
\* savefig, tight_layout, show; a finished run has made all three, and the
\* window is never shown before the image has been written.
C2_SaveLayoutShowOrder ==
    /\ IsPrefix(Effects, <<"savefig", "tight_layout", "show">>)
    /\ pc = "done" => Effects = <<"savefig", "tight_layout", "show">>
    /\ window => png = "new"

C2_Witness ==
    pc = "done" /\ Effects = <<"savefig", "tight_layout", "show">> /\ input.png = "old"

\* C3: when the snapshot is missing, or has no PartType0 group, or the group
\* has no Coordinates table, the process never gets past the failing
\* statement of load_particle_data: nothing is returned, plot_3d_particles
\* is not entered, the image on disk is as it was, no window is shown, and
\* the process ends in the matching error.
C3_LoadFailureIsFatal ==
    (~input.file.exists \/ PARTICLE_TYPE \notin input.file.types \/ ~input.file.hasCoords)
        => /\ pc \in {"main", "load_open", "load_group", "load_coords", "error"}
           /\ res = <<>>
           /\ events = <<>>
           /\ NothingRendered
           /\ pc = "error" =>
                err = IF ~input.file.exists THEN "FileNotFoundError"
                      ELSE IF PARTICLE_TYPE \notin input.file.types THEN "KeyError:PartType"
                      ELSE "KeyError:Coordinates"

C3_Witness ==
    /\ pc = "error" /\ err = "KeyError:Coordinates"
    /\ input.png = "old" /\ png = "old"

\* C4: once the subsampling statement is behind, each of x, y, z (and masses
\* when present) holds exactly the ceil(N/k) elements of its argument at
\* indices 0, k, 2k, ... in order, unchanged when k = 1, and these are the
\* arrays the scatter call is given.
C4_SubsampleEveryKth ==
    Subsampled =>
        LET k == input.subsample
            a == res[1]
        IN  /\ p.x = EveryKth(a.x, k) /\ Len(p.x) = CeilDiv(Len(a.x), k)
            /\ p.y = EveryKth(a.y, k) /\ Len(p.y) = CeilDiv(Len(a.y), k)
            /\ p.z = EveryKth(a.z, k) /\ Len(p.z) = CeilDiv(Len(a.z), k)
            /\ p.masses.some = a.masses.some
            /\ a.masses.some => p.masses.arr = EveryKth(a.masses.arr, k)
            /\ k = 1 => p.x = a.x /\ p.y = a.y /\ p.z = a.z /\ p.masses = a.masses
            /\ scat.done => /\ scat.x = p.x /\ scat.y = p.y /\ scat.z = p.z
                            /\ ~scat.scalar => Len(scat.sizes) = Len(p.masses.arr)

C4_Witness ==
    /\ scat.done /\ input.subsample = 2
    /\ Len(res[1].x) = 3 /\ Len(scat.x) = 2
    /\ res[1].masses.some /\ Len(scat.sizes) = 2

\* C5: when the group has no Masses table, what load_particle_data returns
\* has None for masses, and the scatter call is given the scalar size 0.1,
\* whatever the stride.
C5_NoMassesConstantSize ==
    (Len(res) >= 1 /\ ~input.file.hasMasses)
        => /\ ~res[1].masses.some
           /\ scat.done => scat.scalar /\ scat.size = Tenth

C5_Witness ==
    /\ scat.done /\ ~input.file.hasMasses
    /\ input.subsample > 1 /\ Len(scat.x) >= 2

\* size i is exactly 0.1 + 4.9 * (m[i] / mx), for mx # 0
IsScaled(size, m, mx) ==
    /\ size.cls = "fin"
    /\ size.den > 0
    /\ size.num * 10 * mx = (mx + 49 * m) * size.den

\* 0.1 <= size <= 5.0
InSizeRange(size) ==
    /\ size.cls = "fin"
    /\ Leq(Tenth, size)
    /\ Leq(size, [cls |-> "fin", num |-> 5, den |-> 1])

AllZero(arr) == \A i \in DOMAIN arr : arr[i] = 0

AllNaN(arr) == \A i \in DOMAIN arr : arr[i].cls = "nan"

FullRender ==
    /\ scat.done
    /\ png = "new"
    /\ events = <<"figure", "scatter", "savefig", "tight_layout", "show">>

\* C7 as stated: when plot_3d_particles is given masses that are all zero
\* (at least one of them), every size is not-a-number and the render does
\* not raise: it goes through scatter, the save and the display.
C7_Original ==
    (Plotting /\ res[1].masses.some /\ Len(res[1].masses.arr) >= 1 /\ AllZero(res[1].masses.arr))
        => /\ pc # "error"
           /\ Sized => ~p.scalar /\ AllNaN(p.sizes)
           /\ pc = "done" => FullRender

\* C7, amended: when plot_3d_particles is given at least one mass, all of
\* them zero, and after subsampling there are as many masses as points,
\* every size is not-a-number and the render does not raise: it goes
\* through scatter, the save and the display.
C7_ZeroMassesNaNNoCrash ==
    (/\ Plotting
     /\ res[1].masses.some /\ Len(res[1].masses.arr) >= 1 /\ AllZero(res[1].masses.arr)
     /\ CeilDiv(Len(res[1].masses.arr), input.subsample) = CeilDiv(Len(res[1].x), input.subsample))
        => /\ pc # "error"
           /\ Sized => ~p.scalar /\ AllNaN(p.sizes) /\ Len(p.sizes) = Len(p.x)
           /\ pc \in AfterScatter => scat.done /\ AllNaN(scat.sizes)
           /\ pc = "done" => FullRender

C7_Witness ==
    /\ pc = "done" /\ FullRender
    /\ res[1].masses = Some(<<0, 0>>) /\ Len(res[1].x) = 2
    /\ AllNaN(scat.sizes) /\ Len(scat.sizes) = 2

\* x, y, z and masses (when present) as given to plot_3d_particles do not
\* all have the same length
ArgsMismatch ==
    LET a == res[1]
    IN  \/ Cardinality({Len(a.x), Len(a.y), Len(a.z)}) > 1
        \/ a.masses.some /\ Len(a.masses.arr) # Len(a.x)

\* C8 as stated: when the arrays given to plot_3d_particles differ in
\* length, the render fails in the scatter call with a length mismatch,
\* whatever the stride: nothing is saved and nothing is shown.
C8_Original ==
    (Plotting /\ ArgsMismatch)
        => /\ pc \notin AfterScatter
           /\ NothingRendered
           /\ pc = "error" => err = "ValueError:scatter"

\* C8, amended: when, after subsampling with the given stride, masses is
\* present and its length is neither 0, nor 1, nor the length of the
\* coordinate arrays, the render fails in the scatter call with a length
\* mismatch: nothing is saved and nothing is shown.
C8_MismatchFailsInScatter ==
    (/\ Plotting
     /\ res[1].masses.some
     /\ CeilDiv(Len(res[1].masses.arr), input.subsample)
            \notin {0, 1, CeilDiv(Len(res[1].x), input.subsample)})
        => /\ pc \notin AfterScatter
           /\ NothingRendered
           /\ pc = "error" => err = "ValueError:scatter"

C8_Witness ==
    /\ pc = "error" /\ err = "ValueError:scatter"
    /\ input.subsample = 2
    /\ Len(res[1].x) = 1 /\ Len(res[1].masses.arr) = 3
    /\ NothingRendered

\* C9: the snapshot on disk is never changed, and a second load of the same
\* snapshot with the same particle type returns what the first returned,
\* also when plot_3d_particles ran in between.
C9_ReloadIdentical ==
    /\ file = input.file
    /\ Len(res) = 2 => res[2] = res[1]

C9_Witness ==
    /\ pc = "reloaded" /\ Len(res) = 2
    /\ scat.done /\ input.subsample = 2
    /\ Len(res[2].x) = 3 /\ res[2].masses.some /\ Len(res[2].masses.arr) = 3

\* C10: when plot_3d_particles is given a masses array with no elements,
\* the render ends in the size statement, where the maximum of an empty
\* array raises: the scatter call is not reached, nothing is saved and
\* nothing is shown.
C10_EmptyMassesAbort ==
    (Plotting /\ res[1].masses.some /\ Len(res[1].masses.arr) = 0)
        => /\ pc \in {"plot_figure", "plot_subsample", "plot_sizes", "error"}
           /\ pc = "error" => err = "ValueError:max"
           /\ NothingRendered
           /\ "scatter" \notin Range(events)

C10_Witness ==
    /\ pc = "error" /\ err = "ValueError:max"
    /\ Len(res[1].x) = 0 /\ res[1].masses = Some(<<>>)
    /\ NothingRendered

====
